---- MODULE Spec2Model ----
(***************************************************************************)
(* Frame-relay server of ESP32_Server.ino: the slot table camClients, the  *)
(* occupancy counter activeClients, the shared frameBuffer, the memory     *)
(* monitor and the dispatch pass of loop().                                *)
(*                                                                         *)
(* One pass of loop() is the sequence of steps                             *)
(*   LoopBegin (currentTime = millis(); monitorMemory())                   *)
(*   LoopAccept (wsServer.poll() / accept() / addCameraClient())           *)
(*   LoopService (one iteration of the for loop over the slots)            *)
(*   LoopDelay (delay(10), the pass ends)                                  *)
(* taken in program order under pc; the program is single threaded.        *)
(***************************************************************************)
EXTENDS Integers, Sequences, FiniteSets, TLC

VARIABLES
    clock,          \* millis() as the current pass of loop() first read it
    pc,             \* position inside loop()
    idx,            \* the for loop's index i in loop()
    passes,         \* number of completed passes of loop()
    currentTime,    \* loop()'s const currentTime
    lastCheck,      \* monitorMemory()'s static lastCheck
    lowMemCount,    \* monitorMemory()'s static lowMemCount
    camClients,     \* the slot table
    activeClients,  \* the occupancy counter (size_t)
    frameBuffer,    \* the shared StaticFrameBuffer
    out,            \* what the last step broadcast through wsBrowser, in order
    ev,             \* what the last step did, with the inputs it read
    hist,           \* the heap samples monitorMemory() has taken, latest last
    uptime,         \* milliseconds really elapsed since the first pass began
    stamped,        \* per slot, when (in uptime) and by what lastActivity was set
    wire,           \* per slot, the messages read from its connection so far
    log             \* the latest broadcasts, in order, with the slot serviced

vars == <<clock, pc, idx, passes, currentTime, lastCheck, lowMemCount,
          camClients, activeClients, frameBuffer, out, ev, hist,
          uptime, stamped, wire, log>>

----------------------------------------------------------------------------
(* Program constants *)

CLIENT_TIMEOUT == 10000
MAX_CLIENTS == 2
MAX_FRAME_SIZE == 16384
SIZE == MAX_FRAME_SIZE
CHUNK_SIZE == 8192
HEAP_MARGIN == 1024
LOW_HEAP == 10000
LOW_MEM_LIMIT == 5
CHECK_PERIOD == 1000
TAG_OFFSET == 12
UNSET_ID == -1

\* unsigned long and size_t are 32 bits wide on the ESP32. A 32-bit unsigned
\* value v is held as its two 16-bit halves, v = hi * 65536 + lo, and the
\* arithmetic below is arithmetic modulo 2^32 on that representation.
HALF == 256 * 256

U32(n) == [hi |-> (n \div HALF) % HALF, lo |-> n % HALF]

\* a + n modulo 2^32, for an untyped n >= 0
Add32(a, n) ==
    LET s == a.lo + (n % HALF) IN
    [hi |-> (a.hi + (n \div HALF) + (s \div HALF)) % HALF, lo |-> s % HALF]

\* a - b modulo 2^32
Sub32(a, b) ==
    LET l == a.lo - b.lo
        borrow == IF l < 0 THEN 1 ELSE 0
    IN [hi |-> (a.hi - b.hi - borrow + 2 * HALF) % HALF, lo |-> (l + HALF) % HALF]

\* comparisons of a 32-bit unsigned value with a constant n >= 0
Gt32(a, n) == a.hi > n \div HALF \/ (a.hi = n \div HALF /\ a.lo > n % HALF)
Lt32(a, n) == a.hi < n \div HALF \/ (a.hi = n \div HALF /\ a.lo < n % HALF)
Ge32(a, n) == ~Lt32(a, n)

----------------------------------------------------------------------------
(* Bounds of the model *)

\* passes of loop() after the first, in a run of Spec
MaxPasses == 2
\* passes of loop() after the first, in a run of SpecGuard
MaxGuardPasses == 7
\* passes of loop() after the first, in a run of SpecLowMem
MaxLowMemPasses == 7
\* heap samples remembered in hist
MaxHist == 6
\* passes of loop() after the first, in a run of SpecOrder
MaxOrderPasses == 3
\* broadcasts remembered in log, in a run of SpecOrder
MaxLog == 6

\* the binary frames producers send, as <<length, byte 12>>: empty, too short
\* for a tag, tagged 1, 2 and 3, one and two chunks long with and without a
\* remainder, and one byte too long
FrameShapes ==
    {<<0, 0>>, <<12, 0>>, <<13, 1>>, <<13, 2>>, <<13, 3>>,
     <<8192, 1>>, <<8193, 2>>, <<16384, 1>>, <<16385, 2>>}
\* the first byte of a frame; byte k is this plus k, modulo 256, but for byte 12
FrameSeeds == {5}
\* the camera field a producer puts in its motion messages
ClaimedCameras == {1}

Slots == 0 .. (MAX_CLIENTS - 1)

Min(a, b) == IF a < b THEN a ELSE b

----------------------------------------------------------------------------
(* Values *)

\* an empty std::unique_ptr<CameraClient>
NullClient == [null |-> TRUE]

\* CameraClient(WebsocketsClient&& c, int id): lastActivity(millis())
CameraClient(id, stamp) == [null |-> FALSE, cameraId |-> id, lastActivity |-> stamp]

\* the messages readBlocking() can return. Of a text message the model keeps
\*   motion    whether msg.data() contains the characters "type":"motion"
\*   json      what deserializeJson makes of it: "motion", an object
\*             {type:"motion", camera, detected}; "other", an object of
\*             another shape; "invalid", not JSON (the document stays empty)
\*   camera, detected, seed   the members camera, detected and seq of the object
TextMsg(motion, cam, det) ==
    [kind |-> "text", motion |-> motion,
     json |-> IF motion THEN "motion" ELSE "other",
     camera |-> cam, detected |-> det, len |-> 0, tag |-> 0, seed |-> 0]
\* a motion event numbered seq by its producer
NumberedMotionMsg(cam, det, seq) ==
    [kind |-> "text", motion |-> TRUE, json |-> "motion",
     camera |-> cam, detected |-> det, len |-> 0, tag |-> 0, seed |-> seq]
\* a text that contains the characters "type":"motion" and is not a motion
\* event: an object of another shape that holds them in a nested member
\* (json = "other"), or a text that is not JSON (json = "invalid")
LooseTextMsg(json, cam) ==
    [kind |-> "text", motion |-> TRUE, json |-> json,
     camera |-> cam, detected |-> FALSE, len |-> 0, tag |-> 0, seed |-> 0]
BinaryMsg(n, tag, seed) ==
    [kind |-> "binary", motion |-> FALSE, json |-> "", camera |-> 0,
     detected |-> FALSE, len |-> n, tag |-> tag, seed |-> seed]
OtherMsg ==
    [kind |-> "other", motion |-> FALSE, json |-> "", camera |-> 0,
     detected |-> FALSE, len |-> 0, tag |-> 0, seed |-> 0]
NoMsg ==
    [kind |-> "none", motion |-> FALSE, json |-> "", camera |-> 0,
     detected |-> FALSE, len |-> 0, tag |-> 0, seed |-> 0]

Messages ==
    {TextMsg(TRUE, c, d) : c \in ClaimedCameras, d \in BOOLEAN}
    \cup {LooseTextMsg(j, c) : j \in {"other", "invalid"}, c \in ClaimedCameras}
    \cup {TextMsg(FALSE, 0, FALSE), OtherMsg}
    \cup {BinaryMsg(f[1], f[2], s) : f \in FrameShapes, s \in FrameSeeds}

\* byte k of a binary message, k < msg.len
MsgByte(msg, k) == IF k = TAG_OFFSET THEN msg.tag ELSE (msg.seed + k) % 256

\* byte k of frameBuffer.data, k < fb.length
BufByte(fb, k) == IF k = TAG_OFFSET THEN fb.b12 ELSE (fb.seed + k) % 256

\* what wsBrowser.textAll / binaryAll send
StatusEvent(cam, st) ==
    [kind |-> "status", camera |-> cam, status |-> st, detected |-> FALSE,
     off |-> 0, len |-> 0, seed |-> 0, b12 |-> 0]
MotionEvent(cam, det) ==
    [kind |-> "motion", camera |-> cam, status |-> "", detected |-> det,
     off |-> 0, len |-> 0, seed |-> 0, b12 |-> 0]
\* serializeJson of a document that is not a motion event, after
\* doc["camera"] = cam: the object received with its camera member replaced
\* (json = "other"), or {"camera": cam} alone (json = "invalid")
DocEvent(cam, json) ==
    [kind |-> "doc", camera |-> cam, status |-> json, detected |-> FALSE,
     off |-> 0, len |-> 0, seed |-> 0, b12 |-> 0]
\* deserializeJson(doc, msg.data()); doc["camera"] = cam; serializeJson(doc):
\* every member but camera is the one received
Reserialized(cam, msg) ==
    IF msg.json = "motion"
    THEN [MotionEvent(cam, msg.detected) EXCEPT !.seed = msg.seed]
    ELSE DocEvent(cam, msg.json)
\* binaryAll(frameBuffer.data + off, n): the bytes off .. off+n-1 of the buffer
BinaryChunk(fb, off, n) ==
    [kind |-> "binary", camera |-> 0, status |-> "", detected |-> FALSE,
     off |-> off, len |-> n, seed |-> fb.seed, b12 |-> fb.b12]

\* byte k of a chunk, k < chunk.len
ChunkByte(ch, k) ==
    IF ch.off + k = TAG_OFFSET THEN ch.b12 ELSE (ch.seed + ch.off + k) % 256

\* Three environments the program is run in. Each gives the values its
\* inputs are drawn from:
\*   startTimes    millis() at the first pass
\*   passTimes     how long one pass of loop() takes (delay(10) plus its reads)
\*   acceptLag     time from loop()'s millis() to the millis() of a
\*                 CameraClient's construction in the same pass
\*   monitorHeaps  ESP.getFreeHeap() as monitorMemory() reads it
\*   heaps         ESP.getFreeHeap() as addCameraClient() and the handler read it
\*   available     what client.available() returns
\*   messages      what readBlocking() returns
\*   numbered      whether each producer numbers its messages 1, 2, 3, ... (in
\*                 the first byte of a frame, in the member seq of a text)
\*   logWindow     how many broadcasts log remembers
\* Relay: a few passes, each as long as the timeout or one millisecond
\* longer, with every kind of message and the heap on both sides of the
\* admission threshold, after boot.
Relay ==
    [maxPasses |-> MaxPasses,
     startTimes |-> {U32(0)},
     passTimes |-> {CLIENT_TIMEOUT, CLIENT_TIMEOUT + 1},
     acceptLag |-> {0, 1},
     monitorHeaps |-> {10000},
     heaps |-> {17407, 17408},
     available |-> BOOLEAN,
     messages |-> Messages,
     numbered |-> FALSE,
     logWindow |-> 0]
\* Guard: many passes a second apart with the heap on both sides of the
\* low-memory mark and every producer sending, around the clock's wrap.
Guard ==
    [maxPasses |-> MaxGuardPasses,
     startTimes |-> {U32(0), [hi |-> HALF - 1, lo |-> HALF - 3000]},
     passTimes |-> {1001},
     acceptLag |-> {0},
     monitorHeaps |-> {9999, 10000},
     heaps |-> {17408},
     available |-> {TRUE},
     messages |-> {BinaryMsg(13, 1, 5), TextMsg(FALSE, 0, FALSE)},
     numbered |-> FALSE,
     logWindow |-> 0]
\* LowMem: many passes with the heap always under the low-memory mark when
\* sampled, producers that send tagged or oversized frames or fall silent, and
\* no time lost between the start of a pass and an admission in it, after
\* boot and around the clock's wrap.
LowMem ==
    [maxPasses |-> MaxLowMemPasses,
     startTimes |-> {U32(0), [hi |-> HALF - 1, lo |-> HALF - 5000]},
     passTimes |-> {1001, 10001},
     acceptLag |-> {0},
     monitorHeaps |-> {9999},
     heaps |-> {17407, 17408},
     available |-> BOOLEAN,
     messages |-> {BinaryMsg(13, 1, 5), BinaryMsg(13, 2, 5),
                   BinaryMsg(16385, 1, 5)},
     numbered |-> FALSE,
     logWindow |-> 0]
\* Order: a few short passes with plenty of memory and producers that number
\* their messages: frames of one and of two chunks tagged 1 or 2, frames one
\* byte too long, and motion events.
Order ==
    [maxPasses |-> MaxOrderPasses,
     startTimes |-> {U32(0)},
     passTimes |-> {10},
     acceptLag |-> {0},
     monitorHeaps |-> {10000},
     heaps |-> {17408},
     available |-> BOOLEAN,
     messages |-> {BinaryMsg(f[1], f[2], n) :
                      f \in {<<13, 1>>, <<8193, 2>>, <<16385, 1>>},
                      n \in 1 .. (MaxOrderPasses + 1)}
                  \cup {NumberedMotionMsg(1, TRUE, n) : n \in 1 .. (MaxOrderPasses + 1)},
     numbered |-> TRUE,
     logWindow |-> MaxLog]

\* lastActivity of a slot was never set, or the slot is empty
Unstamped == [at |-> 0, by |-> "none"]

NoEvent ==
    [op |-> "init", slot |-> 0, sampled |-> FALSE, fired |-> FALSE,
     poll |-> FALSE, conn |-> FALSE, admitted |-> FALSE,
     avail |-> FALSE, heap |-> 0, msg |-> NoMsg, handled |-> FALSE,
     evicted |-> FALSE, pre |-> NullClient, preCount |-> U32(0),
     read |-> FALSE, preStamp |-> Unstamped]

----------------------------------------------------------------------------
(* addCameraClient *)

RECURSIVE LastEmpty(_, _)
\* the search for an empty slot keeping the last one it finds
LastEmpty(cc, from) ==
    IF from >= MAX_CLIENTS THEN MAX_CLIENTS
    ELSE LET later == LastEmpty(cc, from + 1) IN
         IF later < MAX_CLIENTS THEN later
         ELSE IF cc[from].null THEN from ELSE MAX_CLIENTS

RECURSIVE FirstEmpty(_, _)
\* the for loop of addCameraClient: the first i >= from with !camClients[i]
FirstEmpty(cc, from) ==
    IF from >= MAX_CLIENTS THEN MAX_CLIENTS
    ELSE IF cc[from].null THEN from
    ELSE FirstEmpty(cc, from + 1)

\* addCameraClient with the safety margin of the memory check left out
addCameraClientNoMargin(cc, ac, heap, stamp) ==
    IF Ge32(ac, MAX_CLIENTS)
    THEN [ok |-> FALSE, camClients |-> cc, activeClients |-> ac]
    ELSE IF heap < MAX_FRAME_SIZE
    THEN [ok |-> FALSE, camClients |-> cc, activeClients |-> ac]
    ELSE LET i == FirstEmpty(cc, 0) IN
         IF i < MAX_CLIENTS
         THEN [ok |-> TRUE,
               camClients |-> [cc EXCEPT ![i] = CameraClient(UNSET_ID, stamp)],
               activeClients |-> Add32(ac, 1)]
         ELSE [ok |-> FALSE, camClients |-> cc, activeClients |-> ac]

addCameraClient(cc, ac, heap, stamp) ==
    IF Ge32(ac, MAX_CLIENTS)
    THEN [ok |-> FALSE, camClients |-> cc, activeClients |-> ac]
    ELSE IF heap < MAX_FRAME_SIZE + HEAP_MARGIN
    THEN [ok |-> FALSE, camClients |-> cc, activeClients |-> ac]
    ELSE LET i == FirstEmpty(cc, 0) IN
         IF i < MAX_CLIENTS
         THEN [ok |-> TRUE,
               camClients |-> [cc EXCEPT ![i] = CameraClient(UNSET_ID, stamp)],
               activeClients |-> Add32(ac, 1)]
         ELSE [ok |-> FALSE, camClients |-> cc, activeClients |-> ac]

----------------------------------------------------------------------------
(* removeCameraClient *)

\* removeCameraClient without --activeClients
removeCameraClientNoDecrement(cc, ac, index) ==
    IF index < MAX_CLIENTS /\ ~cc[index].null
    THEN [camClients |-> [cc EXCEPT ![index] = NullClient],
          activeClients |-> ac,
          out |-> <<StatusEvent(cc[index].cameraId, "disconnected")>>]
    ELSE [camClients |-> cc, activeClients |-> ac, out |-> <<>>]

\* removeCameraClient without the test that the slot is occupied
removeCameraClientUnguarded(cc, ac, index) ==
    IF index < MAX_CLIENTS
    THEN [camClients |-> [cc EXCEPT ![index] = NullClient],
          activeClients |-> Sub32(ac, U32(1)),
          out |-> <<StatusEvent(IF cc[index].null THEN UNSET_ID
                                ELSE cc[index].cameraId, "disconnected")>>]
    ELSE [camClients |-> cc, activeClients |-> ac, out |-> <<>>]

removeCameraClient(cc, ac, index) ==
    IF index < MAX_CLIENTS /\ ~cc[index].null
    THEN [camClients |-> [cc EXCEPT ![index] = NullClient],
          activeClients |-> Sub32(ac, U32(1)),
          out |-> <<StatusEvent(cc[index].cameraId, "disconnected")>>]
    ELSE [camClients |-> cc, activeClients |-> ac, out |-> <<>>]

----------------------------------------------------------------------------
(* monitorMemory *)

RECURSIVE ResetAllUnchecked(_, _, _)
\* the forced cleanup loop decrementing for every slot, occupied or not
ResetAllUnchecked(cc, ac, from) ==
    IF from >= MAX_CLIENTS THEN [camClients |-> cc, activeClients |-> ac]
    ELSE ResetAllUnchecked([cc EXCEPT ![from] = NullClient], Sub32(ac, U32(1)),
                           from + 1)

RECURSIVE ResetAllFirstOnly(_, _, _)
\* the forced cleanup loop leaving after the first slot it resets
ResetAllFirstOnly(cc, ac, from) ==
    IF from >= MAX_CLIENTS THEN [camClients |-> cc, activeClients |-> ac]
    ELSE IF ~cc[from].null
    THEN [camClients |-> [cc EXCEPT ![from] = NullClient],
          activeClients |-> Sub32(ac, U32(1))]
    ELSE ResetAllFirstOnly(cc, ac, from + 1)

RECURSIVE ResetAll(_, _, _)
\* the forced cleanup loop: for i in from .. MAX_CLIENTS-1, reset the occupied slots
ResetAll(cc, ac, from) ==
    IF from >= MAX_CLIENTS THEN [camClients |-> cc, activeClients |-> ac]
    ELSE IF ~cc[from].null
    THEN ResetAll([cc EXCEPT ![from] = NullClient], Sub32(ac, U32(1)), from + 1)
    ELSE ResetAll(cc, ac, from + 1)

\* whether this call takes a sample
SampleDue(now, lc) == Gt32(Sub32(now, lc), CHECK_PERIOD)

\* monitorMemory firing as soon as the count reaches the limit
monitorMemoryEarly(now, lc, lmc, cc, ac, freeHeap) ==
    IF SampleDue(now, lc)
    THEN IF freeHeap < LOW_HEAP
         THEN IF lmc + 1 >= LOW_MEM_LIMIT
              THEN LET r == ResetAll(cc, ac, 0) IN
                   [lastCheck |-> now, lowMemCount |-> 0, fired |-> TRUE,
                    camClients |-> r.camClients, activeClients |-> r.activeClients]
              ELSE [lastCheck |-> now, lowMemCount |-> lmc + 1, fired |-> FALSE,
                    camClients |-> cc, activeClients |-> ac]
         ELSE [lastCheck |-> now, lowMemCount |-> 0, fired |-> FALSE,
               camClients |-> cc, activeClients |-> ac]
    ELSE [lastCheck |-> lc, lowMemCount |-> lmc, fired |-> FALSE,
          camClients |-> cc, activeClients |-> ac]

monitorMemory(now, lc, lmc, cc, ac, freeHeap) ==
    IF SampleDue(now, lc)
    THEN IF freeHeap < LOW_HEAP
         THEN IF lmc + 1 > LOW_MEM_LIMIT
              THEN LET r == ResetAll(cc, ac, 0) IN
                   [lastCheck |-> now, lowMemCount |-> 0, fired |-> TRUE,
                    camClients |-> r.camClients, activeClients |-> r.activeClients]
              ELSE [lastCheck |-> now, lowMemCount |-> lmc + 1, fired |-> FALSE,
                    camClients |-> cc, activeClients |-> ac]
         ELSE [lastCheck |-> now, lowMemCount |-> 0, fired |-> FALSE,
               camClients |-> cc, activeClients |-> ac]
    ELSE [lastCheck |-> lc, lowMemCount |-> lmc, fired |-> FALSE,
          camClients |-> cc, activeClients |-> ac]

----------------------------------------------------------------------------
(* handleWebSocketMessage *)

\* the copy without frameBuffer.length = msgLen
MemcpyKeepsLength(fb, msg) ==
    [length |-> fb.length,
     seed |-> IF msg.len > 0 THEN msg.seed ELSE fb.seed,
     b12 |-> IF msg.len > TAG_OFFSET THEN msg.tag ELSE fb.b12]

\* memcpy(frameBuffer.data, msg.c_str(), msgLen); frameBuffer.length = msgLen
\* (bytes at and beyond msgLen keep what the buffer held before)
Memcpy(fb, msg) ==
    [length |-> msg.len,
     seed |-> IF msg.len > 0 THEN msg.seed ELSE fb.seed,
     b12 |-> IF msg.len > TAG_OFFSET THEN msg.tag ELSE fb.b12]

\* the identity check taking any value of byte 12 as an identity
TagStepAnyTag(client, fb) ==
    IF fb.length > TAG_OFFSET
    THEN LET receivedCameraId == fb.b12 IN
         IF client.cameraId # receivedCameraId
         THEN [client |-> [client EXCEPT !.cameraId = receivedCameraId],
               out |-> <<StatusEvent(client.cameraId, "disconnected"),
                         StatusEvent(receivedCameraId, "connected")>>]
         ELSE [client |-> client, out |-> <<>>]
    ELSE [client |-> client, out |-> <<>>]

\* the identity check on the embedded tag, with the status events it sends
TagStep(client, fb) ==
    IF fb.length > TAG_OFFSET
    THEN LET receivedCameraId == fb.b12 IN
         IF receivedCameraId = 1 \/ receivedCameraId = 2
         THEN IF client.cameraId # receivedCameraId
              THEN [client |-> [client EXCEPT !.cameraId = receivedCameraId],
                    out |-> <<StatusEvent(client.cameraId, "disconnected"),
                              StatusEvent(receivedCameraId, "connected")>>]
              ELSE [client |-> client, out |-> <<>>]
         ELSE [client |-> client, out |-> <<>>]
    ELSE [client |-> client, out |-> <<>>]

RECURSIVE ChunksWholeLength(_, _)
\* the forwarding loop with min(CHUNK_SIZE, length) as the size of every chunk
ChunksWholeLength(fb, offset) ==
    IF offset < fb.length
    THEN <<BinaryChunk(fb, offset, Min(CHUNK_SIZE, fb.length))>>
         \o ChunksWholeLength(fb, offset + CHUNK_SIZE)
    ELSE <<>>

RECURSIVE Chunks(_, _)
\* the forwarding loop: for (offset; offset < length; offset += CHUNK_SIZE)
Chunks(fb, offset) ==
    IF offset < fb.length
    THEN <<BinaryChunk(fb, offset, Min(CHUNK_SIZE, fb.length - offset))>>
         \o Chunks(fb, offset + CHUNK_SIZE)
    ELSE <<>>

\* the handler forwarding what the buffer held before the copy
handleWebSocketMessageForwardsOld(client, fb, available, freeHeap, msg) ==
    IF ~available
    THEN [ret |-> FALSE, client |-> client, frameBuffer |-> fb, out |-> <<>>,
          read |-> FALSE]
    ELSE IF freeHeap < MAX_FRAME_SIZE + HEAP_MARGIN
    THEN [ret |-> FALSE, client |-> client, frameBuffer |-> fb, out |-> <<>>,
          read |-> FALSE]
    ELSE IF msg.kind = "text"
    THEN [ret |-> TRUE, client |-> client, frameBuffer |-> fb,
          out |-> IF msg.motion
                  THEN <<Reserialized(client.cameraId, msg)>>
                  ELSE <<>>,
          read |-> TRUE]
    ELSE IF msg.kind = "binary" /\ msg.len <= MAX_FRAME_SIZE
    THEN LET fb1 == Memcpy(fb, msg)
             t == TagStep(client, fb1)
         IN [ret |-> TRUE, client |-> t.client, frameBuffer |-> fb1,
             out |-> t.out \o Chunks(fb, 0), read |-> TRUE]
    ELSE [ret |-> FALSE, client |-> client, frameBuffer |-> fb, out |-> <<>>,
          read |-> TRUE]

\* the handler running the identity check after the first chunk went out
handleWebSocketMessageStatusMidFrame(client, fb, available, freeHeap, msg) ==
    IF ~available
    THEN [ret |-> FALSE, client |-> client, frameBuffer |-> fb, out |-> <<>>,
          read |-> FALSE]
    ELSE IF freeHeap < MAX_FRAME_SIZE + HEAP_MARGIN
    THEN [ret |-> FALSE, client |-> client, frameBuffer |-> fb, out |-> <<>>,
          read |-> FALSE]
    ELSE IF msg.kind = "text"
    THEN [ret |-> TRUE, client |-> client, frameBuffer |-> fb,
          out |-> IF msg.motion
                  THEN <<Reserialized(client.cameraId, msg)>>
                  ELSE <<>>,
          read |-> TRUE]
    ELSE IF msg.kind = "binary" /\ msg.len <= MAX_FRAME_SIZE
    THEN LET fb1 == Memcpy(fb, msg)
             t == TagStep(client, fb1)
             c == Chunks(fb1, 0)
         IN [ret |-> TRUE, client |-> t.client, frameBuffer |-> fb1,
             out |-> IF c = <<>> THEN t.out
                     ELSE <<Head(c)>> \o t.out \o Tail(c),
             read |-> TRUE]
    ELSE [ret |-> FALSE, client |-> client, frameBuffer |-> fb, out |-> <<>>,
          read |-> TRUE]

\* the handler without its test of the free heap
handleWebSocketMessageNoHeapCheck(client, fb, available, freeHeap, msg) ==
    IF ~available
    THEN [ret |-> FALSE, client |-> client, frameBuffer |-> fb, out |-> <<>>,
          read |-> FALSE]
    ELSE IF msg.kind = "text"
    THEN [ret |-> TRUE, client |-> client, frameBuffer |-> fb,
          out |-> IF msg.motion
                  THEN <<Reserialized(client.cameraId, msg)>>
                  ELSE <<>>,
          read |-> TRUE]
    ELSE IF msg.kind = "binary" /\ msg.len <= MAX_FRAME_SIZE
    THEN LET fb1 == Memcpy(fb, msg)
             t == TagStep(client, fb1)
         IN [ret |-> TRUE, client |-> t.client, frameBuffer |-> fb1,
             out |-> t.out \o Chunks(fb1, 0), read |-> TRUE]
    ELSE [ret |-> FALSE, client |-> client, frameBuffer |-> fb, out |-> <<>>,
          read |-> TRUE]

\* available: client.client.available(); freeHeap: ESP.getFreeHeap();
\* msg: what client.client.readBlocking() returns when it is called
handleWebSocketMessage(client, fb, available, freeHeap, msg) ==
    IF ~available
    THEN [ret |-> FALSE, client |-> client, frameBuffer |-> fb, out |-> <<>>,
          read |-> FALSE]
    ELSE IF freeHeap < MAX_FRAME_SIZE + HEAP_MARGIN
    THEN [ret |-> FALSE, client |-> client, frameBuffer |-> fb, out |-> <<>>,
          read |-> FALSE]
    ELSE IF msg.kind = "text"
    THEN [ret |-> TRUE, client |-> client, frameBuffer |-> fb,
          out |-> IF msg.motion
                  THEN <<Reserialized(client.cameraId, msg)>>
                  ELSE <<>>,
          read |-> TRUE]
    ELSE IF msg.kind = "binary"
    THEN IF msg.len > MAX_FRAME_SIZE
         THEN [ret |-> FALSE, client |-> client, frameBuffer |-> fb,
               out |-> <<>>, read |-> TRUE]
         ELSE IF msg.len <= SIZE
         THEN LET fb1 == Memcpy(fb, msg)
                  t == TagStep(client, fb1)
              IN [ret |-> TRUE, client |-> t.client, frameBuffer |-> fb1,
                  out |-> t.out \o Chunks(fb1, 0), read |-> TRUE]
         ELSE [ret |-> FALSE, client |-> client, frameBuffer |-> fb,
               out |-> <<>>, read |-> TRUE]
    ELSE [ret |-> FALSE, client |-> client, frameBuffer |-> fb, out |-> <<>>,
          read |-> TRUE]

----------------------------------------------------------------------------
(* loop *)

\* the timeout test against ten times the timeout
TimedOutLate(now, client) ==
    Gt32(Sub32(now, client.lastActivity), 10 * CLIENT_TIMEOUT)

\* whether the timeout test of loop() holds for a slot
TimedOut(now, client) == Gt32(Sub32(now, client.lastActivity), CLIENT_TIMEOUT)

\* the body of the for loop stamping lastActivity whatever the handler returns
ServiceSlotAlwaysStamps(cc, ac, fb, i, now, available, freeHeap, msg) ==
    LET h == handleWebSocketMessage(cc[i], fb, available, freeHeap, msg)
        cc1 == [cc EXCEPT ![i] = h.client]
    IN [camClients |-> [cc1 EXCEPT ![i].lastActivity = now],
        activeClients |-> ac, frameBuffer |-> h.frameBuffer,
        out |-> h.out, handled |-> h.ret, evicted |-> FALSE, read |-> h.read]

\* the body of the for loop testing the timeout only when nothing is pending
ServiceSlotTimeoutWhenIdle(cc, ac, fb, i, now, available, freeHeap, msg) ==
    LET h == handleWebSocketMessage(cc[i], fb, available, freeHeap, msg)
        cc1 == [cc EXCEPT ![i] = h.client]
    IN IF h.ret
       THEN [camClients |-> [cc1 EXCEPT ![i].lastActivity = now],
             activeClients |-> ac, frameBuffer |-> h.frameBuffer,
             out |-> h.out, handled |-> TRUE, evicted |-> FALSE,
             read |-> h.read]
       ELSE IF ~available /\ TimedOut(now, cc1[i])
       THEN LET r == removeCameraClient(cc1, ac, i) IN
            [camClients |-> r.camClients, activeClients |-> r.activeClients,
             frameBuffer |-> h.frameBuffer, out |-> h.out \o r.out,
             handled |-> FALSE, evicted |-> TRUE, read |-> h.read]
       ELSE [camClients |-> cc1, activeClients |-> ac,
             frameBuffer |-> h.frameBuffer, out |-> h.out,
             handled |-> FALSE, evicted |-> FALSE, read |-> h.read]

\* the body of the for loop never stamping lastActivity
ServiceSlotNeverStamps(cc, ac, fb, i, now, available, freeHeap, msg) ==
    LET h == handleWebSocketMessage(cc[i], fb, available, freeHeap, msg)
        cc1 == [cc EXCEPT ![i] = h.client]
    IN IF h.ret
       THEN [camClients |-> cc1,
             activeClients |-> ac, frameBuffer |-> h.frameBuffer,
             out |-> h.out, handled |-> TRUE, evicted |-> FALSE,
             read |-> h.read]
       ELSE IF TimedOut(now, cc1[i])
       THEN LET r == removeCameraClient(cc1, ac, i) IN
            [camClients |-> r.camClients, activeClients |-> r.activeClients,
             frameBuffer |-> h.frameBuffer, out |-> h.out \o r.out,
             handled |-> FALSE, evicted |-> TRUE, read |-> h.read]
       ELSE [camClients |-> cc1, activeClients |-> ac,
             frameBuffer |-> h.frameBuffer, out |-> h.out,
             handled |-> FALSE, evicted |-> FALSE, read |-> h.read]

\* the body of the for loop of loop() for an occupied slot i
ServiceSlot(cc, ac, fb, i, now, available, freeHeap, msg) ==
    LET h == handleWebSocketMessage(cc[i], fb, available, freeHeap, msg)
        cc1 == [cc EXCEPT ![i] = h.client]
    IN IF h.ret
       THEN [camClients |-> [cc1 EXCEPT ![i].lastActivity = now],
             activeClients |-> ac, frameBuffer |-> h.frameBuffer,
             out |-> h.out, handled |-> TRUE, evicted |-> FALSE,
             read |-> h.read]
       ELSE IF TimedOut(now, cc1[i])
       THEN LET r == removeCameraClient(cc1, ac, i) IN
            [camClients |-> r.camClients, activeClients |-> r.activeClients,
             frameBuffer |-> h.frameBuffer, out |-> h.out \o r.out,
             handled |-> FALSE, evicted |-> TRUE, read |-> h.read]
       ELSE [camClients |-> cc1, activeClients |-> ac,
             frameBuffer |-> h.frameBuffer, out |-> h.out,
             handled |-> FALSE, evicted |-> FALSE, read |-> h.read]

\* the newest MaxHist samples
Remember(h, s) ==
    LET all == Append(h, s) IN
    IF Len(all) > MaxHist THEN Tail(all) ELSE all

\* the newest n broadcasts, after the slot i being serviced broadcast o while
\* frameBuffer.length was fbLen
Logged(l, i, fbLen, o, n) ==
    LET all == l \o [k \in 1 .. Len(o) |->
                       [slot |-> i, frame |-> fbLen, item |-> o[k]]] IN
    IF Len(all) > n THEN SubSeq(all, Len(all) - n + 1, Len(all)) ELSE all

\* stamped once the slots cc are what the table holds: an empty slot has none
Stamps(st, cc) == [i \in Slots |-> IF cc[i].null THEN Unstamped ELSE st[i]]

Init(E) ==
    /\ clock \in E.startTimes
    /\ pc = "begin"
    /\ idx = 0
    /\ passes = 0
    /\ currentTime = clock
    /\ lastCheck = clock   \* 0 after boot; later, a sample was just taken
    /\ lowMemCount = 0
    /\ camClients = [i \in Slots |-> NullClient]
    /\ activeClients = U32(0)
    /\ frameBuffer = [length |-> 0, seed |-> 0, b12 |-> 0]
    /\ out = <<>>
    /\ ev = NoEvent
    /\ hist = <<>>
    /\ uptime = 0
    /\ stamped = [i \in Slots |-> Unstamped]
    /\ wire = [i \in Slots |-> 0]
    /\ log = <<>>

\* const unsigned long currentTime = millis(); monitorMemory();
LoopBegin(E) ==
    /\ pc = "begin"
    /\ LET due == SampleDue(clock, lastCheck) IN
       \E freeHeap \in (IF due THEN E.monitorHeaps ELSE {0}) :
         LET m == monitorMemory(clock, lastCheck, lowMemCount, camClients,
                                activeClients, freeHeap)
         IN /\ currentTime' = clock
            /\ lastCheck' = m.lastCheck
            /\ lowMemCount' = m.lowMemCount
            /\ camClients' = m.camClients
            /\ activeClients' = m.activeClients
            /\ hist' = IF due
                       THEN Remember(hist, [heap |-> freeHeap, fired |-> m.fired])
                       ELSE hist
            /\ ev' = [NoEvent EXCEPT !.op = "begin", !.sampled = due,
                                     !.fired = m.fired, !.heap = freeHeap,
                                     !.preCount = activeClients]
            /\ stamped' = Stamps(stamped, m.camClients)
    /\ out' = <<>>
    /\ pc' = "accept"
    /\ UNCHANGED <<clock, idx, passes, frameBuffer, uptime, wire, log>>

\* if (wsServer.poll() && activeClients < MAX_CLIENTS) {
\*     auto newClient = wsServer.accept();
\*     if (newClient.available()) addCameraClient(std::move(newClient)); }
LoopAccept(E) ==
    /\ pc = "accept"
    /\ \E poll \in BOOLEAN :
         IF poll /\ Lt32(activeClients, MAX_CLIENTS)
         THEN \E conn \in BOOLEAN :
                IF conn
                THEN \E freeHeap \in E.heaps, lag \in E.acceptLag :
                       LET stamp == Add32(clock, lag)
                           a == addCameraClient(camClients, activeClients,
                                                freeHeap, stamp)
                       IN /\ camClients' = a.camClients
                          /\ activeClients' = a.activeClients
                          /\ ev' = [NoEvent EXCEPT
                                      !.op = "accept", !.poll = TRUE,
                                      !.conn = TRUE, !.heap = freeHeap,
                                      !.admitted = a.ok,
                                      !.slot = FirstEmpty(camClients, 0),
                                      !.preCount = activeClients]
                          /\ stamped' =
                               [i \in Slots |->
                                  IF camClients[i].null /\ ~a.camClients[i].null
                                  THEN [at |-> uptime + lag, by |-> "admit"]
                                  ELSE stamped[i]]
                          /\ wire' =
                               [i \in Slots |->
                                  IF camClients[i].null /\ ~a.camClients[i].null
                                  THEN 0 ELSE wire[i]]
                ELSE /\ UNCHANGED <<camClients, activeClients, stamped, wire>>
                     /\ ev' = [NoEvent EXCEPT !.op = "accept", !.poll = TRUE,
                                              !.preCount = activeClients]
         ELSE /\ UNCHANGED <<camClients, activeClients, stamped, wire>>
              /\ ev' = [NoEvent EXCEPT !.op = "accept", !.poll = poll,
                                       !.preCount = activeClients]
    /\ out' = <<>>
    /\ pc' = "service"
    /\ idx' = 0
    /\ UNCHANGED <<clock, passes, currentTime, lastCheck, lowMemCount,
                   frameBuffer, hist, uptime, log>>

\* the inputs one call of handleWebSocketMessage can read: available(), then
\* getFreeHeap(), then readBlocking(), each only if the call gets that far
HandlerInputs(E) ==
    {[available |-> FALSE, freeHeap |-> 0, msg |-> NoMsg] :
            a \in {x \in E.available : ~x}}
    \cup {[available |-> TRUE, freeHeap |-> h, msg |-> NoMsg] :
            h \in {x \in E.heaps : x < MAX_FRAME_SIZE + HEAP_MARGIN}}
    \cup {[available |-> TRUE, freeHeap |-> h, msg |-> m] :
            h \in {x \in E.heaps : x >= MAX_FRAME_SIZE + HEAP_MARGIN},
            m \in E.messages}

\* one iteration of for (size_t i = 0; i < MAX_CLIENTS; ++i)
LoopService(E) ==
    /\ pc = "service"
    /\ IF camClients[idx].null
       THEN /\ UNCHANGED <<camClients, activeClients, frameBuffer, stamped,
                           wire, log>>
            /\ out' = <<>>
            /\ ev' = [NoEvent EXCEPT !.op = "service", !.slot = idx,
                                     !.preCount = activeClients]
       ELSE \E in \in HandlerInputs(E) :
              LET s == ServiceSlot(camClients, activeClients, frameBuffer, idx,
                                   currentTime, in.available, in.freeHeap, in.msg)
              IN \* a producer that numbers its messages sends the next number
                 /\ (E.numbered /\ in.msg.kind # "none") =>
                        in.msg.seed = wire[idx] + 1
                 /\ wire' = IF E.numbered /\ s.read
                            THEN [wire EXCEPT ![idx] = wire[idx] + 1]
                            ELSE wire
                 /\ stamped' =
                      Stamps(IF s.handled
                             THEN [stamped EXCEPT
                                     ![idx] = [at |-> uptime, by |-> "message"]]
                             ELSE stamped,
                             s.camClients)
                 /\ log' = Logged(log, idx, s.frameBuffer.length, s.out, E.logWindow)
                 /\ camClients' = s.camClients
                 /\ activeClients' = s.activeClients
                 /\ frameBuffer' = s.frameBuffer
                 /\ out' = s.out
                 /\ ev' = [NoEvent EXCEPT !.op = "service", !.slot = idx,
                                          !.avail = in.available,
                                          !.heap = in.freeHeap,
                                          !.msg = in.msg,
                                          !.handled = s.handled,
                                          !.evicted = s.evicted,
                                          !.pre = camClients[idx],
                                          !.preCount = activeClients,
                                          !.read = s.read,
                                          !.preStamp = stamped[idx]]
    /\ idx' = idx + 1
    /\ pc' = IF idx + 1 < MAX_CLIENTS THEN "service" ELSE "delay"
    /\ UNCHANGED <<clock, passes, currentTime, lastCheck, lowMemCount, hist,
                   uptime>>

\* delay(10): the pass ends; the next one starts one of E.passTimes later
LoopDelay(E) ==
    /\ pc = "delay"
    /\ passes < E.maxPasses
    /\ \E d \in E.passTimes : clock' = Add32(clock, d) /\ uptime' = uptime + d
    /\ passes' = passes + 1
    /\ pc' = "begin"
    /\ out' = <<>>
    /\ ev' = [NoEvent EXCEPT !.op = "delay", !.preCount = activeClients]
    /\ UNCHANGED <<idx, currentTime, lastCheck, lowMemCount, camClients,
                   activeClients, frameBuffer, hist, stamped, wire, log>>

Next == LoopBegin(Relay) \/ LoopAccept(Relay) \/ LoopService(Relay) \/ LoopDelay(Relay)

Spec == Init(Relay) /\ [][Next]_vars

NextGuard == LoopBegin(Guard) \/ LoopAccept(Guard) \/ LoopService(Guard) \/ LoopDelay(Guard)

SpecGuard == Init(Guard) /\ [][NextGuard]_vars

NextLowMem ==
    LoopBegin(LowMem) \/ LoopAccept(LowMem) \/ LoopService(LowMem) \/ LoopDelay(LowMem)

SpecLowMem == Init(LowMem) /\ [][NextLowMem]_vars

NextOrder ==
    LoopBegin(Order) \/ LoopAccept(Order) \/ LoopService(Order) \/ LoopDelay(Order)

SpecOrder == Init(Order) /\ [][NextOrder]_vars

----------------------------------------------------------------------------
(* Helpers of the properties *)

Le32(a, n) == ~Gt32(a, n)

Occupied == {i \in Slots : ~camClients[i].null}

\* the binary broadcasts of the last step, in order
Binaries == SelectSeq(out, LAMBDA e : e.kind = "binary")

\* the status broadcasts of the last step, in order
Statuses == SelectSeq(out, LAMBDA e : e.kind = "status")

\* the last step serviced an occupied slot
Serviced == ev.op = "service" /\ ~ev.pre.null

\* elapsed time currentTime - lastActivity, modulo 2^32, over the timeout
Stale(client) == Gt32(Sub32(currentTime, client.lastActivity), CLIENT_TIMEOUT)

\* the last step read a binary frame of the given kind
ReadOversized == Serviced /\ ev.msg.kind = "binary" /\ ev.msg.len > MAX_FRAME_SIZE
ReadAccepted == Serviced /\ ev.msg.kind = "binary" /\ ev.msg.len <= MAX_FRAME_SIZE

----------------------------------------------------------------------------
(* C1 *)

\* C1: the occupancy never exceeds MAX_CLIENTS (the counter activeClients and
\* the number of occupied slots), and an accept step taken while every slot is
\* occupied leaves the slot table and the counter unchanged.
C1_CapacityNeverExceeded ==
    /\ [](Le32(activeClients, MAX_CLIENTS) /\ Cardinality(Occupied) <= MAX_CLIENTS)
    /\ [][(pc = "accept" /\ Occupied = Slots)
            => (camClients' = camClients /\ activeClients' = activeClients
                /\ ~ev'.admitted)]_vars

\* a connection was pending while both slots were occupied, and was refused
C1_Witness ==
    /\ ev.op = "accept" /\ ev.poll /\ ~ev.admitted
    /\ Occupied = Slots
    /\ activeClients = U32(MAX_CLIENTS)

----------------------------------------------------------------------------
(* C2 *)

\* C2: an admission attempted with free heap under 16384 + 1024 fails and
\* changes no slot and not the counter, whatever the occupancy: both for the
\* attempts loop() makes and for addCameraClient applied to any reachable
\* slot table.
C2_LowMemoryAdmissionFails ==
    /\ [](\A h \in {0, 9999, 17407} :
            LET a == addCameraClient(camClients, activeClients, h, clock) IN
            ~a.ok /\ a.camClients = camClients /\ a.activeClients = activeClients)
    /\ [][(pc = "accept" /\ ev'.conn /\ ev'.heap < 16384 + 1024)
            => (~ev'.admitted /\ camClients' = camClients
                /\ activeClients' = activeClients)]_vars

\* an admission was attempted with one slot free and 17407 bytes free, and failed
C2_Witness ==
    /\ ev.op = "accept" /\ ev.conn /\ ev.heap = 17407 /\ ~ev.admitted
    /\ Cardinality(Occupied) = 1

----------------------------------------------------------------------------
(* C3 *)

\* C3: a slot serviced without a successfully processed message while its
\* last activity is more than CLIENT_TIMEOUT old is evicted in that step, once:
\* the slot is empty afterwards, the counter is one less, and the step
\* broadcasts exactly one status-disconnected event, carrying the slot's
\* identity; no pass ends with a stale slot still occupied.
C3_TimeoutEviction ==
    /\ (Serviced /\ ~ev.handled /\ Stale(ev.pre)) => ev.evicted
    /\ (ev.op = "service" /\ ev.evicted) =>
          /\ ~ev.pre.null
          /\ camClients[ev.slot].null
          /\ activeClients = Sub32(ev.preCount, U32(1))
          /\ (ev.pre.cameraId # UNSET_ID =>
                /\ Len(Statuses) = 1
                /\ Statuses[1] = StatusEvent(ev.pre.cameraId, "disconnected")
                /\ Len(out) = 1)
    /\ pc = "delay" => \A i \in Occupied : ~Stale(camClients[i])

\* a slot tagged camera 2 timed out and its disconnect was broadcast
C3_Witness ==
    /\ ev.op = "service" /\ ev.evicted
    /\ ev.pre.cameraId = 2
    /\ out = <<StatusEvent(2, "disconnected")>>
    /\ camClients[ev.slot].null

----------------------------------------------------------------------------
(* C4 *)

\* C4: a frame whose tag is 1 or 2 and differs from the slot's identity
\* broadcasts, in order, one status-disconnected for the old identity only if
\* one was assigned, one status-connected for the new identity, then the
\* chunks; a frame whose tag equals the identity broadcasts no status event.
C4_ReassignmentEvents ==
    (ReadAccepted /\ ev.msg.len > TAG_OFFSET /\ ev.msg.tag \in {1, 2}) =>
        IF ev.msg.tag # ev.pre.cameraId
        THEN out = (IF ev.pre.cameraId # UNSET_ID
                    THEN <<StatusEvent(ev.pre.cameraId, "disconnected")>>
                    ELSE <<>>)
                   \o <<StatusEvent(ev.msg.tag, "connected")>>
                   \o Binaries
        ELSE Len(Statuses) = 0

----------------------------------------------------------------------------
(* C5 *)

\* C5: an eviction broadcasts a disconnect notification only if the slot had
\* an assigned identity, carrying it; evicting a slot whose identity is unset
\* broadcasts nothing.
C5_EvictionNotifiesOnlyIdentified ==
    (ev.op = "service" /\ ev.evicted) =>
        IF ev.pre.cameraId = UNSET_ID
        THEN out = <<>>
        ELSE out = <<StatusEvent(ev.pre.cameraId, "disconnected")>>

----------------------------------------------------------------------------
(* C6 *)

\* C6: removeCameraClient of an empty slot or of an index out of range changes
\* no slot and not the counter and broadcasts nothing, and removing the same
\* index twice gives the state and the broadcasts of removing it once.
C6_EvictionIdempotent ==
    \A index \in 0 .. (MAX_CLIENTS + 1) :
        LET once == removeCameraClient(camClients, activeClients, index)
            twice == removeCameraClient(once.camClients, once.activeClients, index)
        IN /\ (index >= MAX_CLIENTS \/ camClients[index].null) =>
                  /\ once.camClients = camClients
                  /\ once.activeClients = activeClients
                  /\ once.out = <<>>
           /\ twice.camClients = once.camClients
           /\ twice.activeClients = once.activeClients
           /\ once.out \o twice.out = once.out

\* a slot has just been evicted by the dispatch loop while the other is occupied
C6_Witness ==
    /\ ev.op = "service" /\ ev.evicted
    /\ camClients[ev.slot].null
    /\ Cardinality(Occupied) = 1

----------------------------------------------------------------------------
(* C7 *)

----------------------------------------------------------------------------
(* C8 *)

\* the samples that count as low
LowSample(s) == s.heap < 10000

RECURSIVE TrailingRun(_, _)
\* the number of consecutive low samples at the end of h[1..n] since the last
\* sample that was not low or that fired
TrailingRun(h, n) ==
    IF n = 0 THEN 0
    ELSE IF ~LowSample(h[n]) \/ h[n].fired THEN 0
    ELSE 1 + TrailingRun(h, n - 1)

\* C8: the forced reset fires only on a sample that completes a run of more
\* than 5 consecutive low samples with no firing inside the run; a sample that
\* is not low resets the run to 0; firing resets it to 0, so the sample after a
\* firing does not fire; the counter is the length of the current run.
C8_GuardFiresAfterSustainedLow ==
    (ev.op = "begin" /\ ev.sampled) =>
        LET n == Len(hist) IN
        /\ n >= 1 /\ hist[n] = [heap |-> ev.heap, fired |-> ev.fired]
        /\ ev.fired =>
              /\ n >= 6
              /\ \A k \in (n - 5) .. n : LowSample(hist[k])
              /\ \A k \in (n - 5) .. (n - 1) : ~hist[k].fired
              /\ lowMemCount = 0
        /\ ~LowSample(hist[n]) => (lowMemCount = 0 /\ ~ev.fired)
        /\ (n >= 2 /\ hist[n - 1].fired) => ~ev.fired
        /\ lowMemCount = TrailingRun(hist, n)

\* the sample right after a firing was low again and did not fire
C8_Witness ==
    /\ ev.op = "begin" /\ ev.sampled /\ ~ev.fired
    /\ Len(hist) >= 2
    /\ hist[Len(hist) - 1].fired
    /\ LowSample(hist[Len(hist)])
    /\ lowMemCount = 1

----------------------------------------------------------------------------
(* C9 *)

\* C9: whenever a slot with an assigned identity becomes empty, by the
\* timeout or by the forced reset, the same step broadcasts a
\* status-disconnected event carrying that identity.
C9_EveryEvictionNotified ==
    [][\A i \in Slots :
         (~camClients[i].null /\ camClients[i].cameraId # UNSET_ID
          /\ camClients'[i].null)
         => \E k \in DOMAIN out' :
               out'[k] = StatusEvent(camClients[i].cameraId, "disconnected")]_vars

----------------------------------------------------------------------------
(* C10 *)

\* the offsets inside a chunk of n bytes starting at off where the bytes are
\* compared: its first and last byte and the tag byte. A frame's bytes are
\* given by its seed and its tag, so these decide every byte of the chunk.
Probes(off, n) ==
    {0, n - 1} \cup {j \in {TAG_OFFSET - off} : j >= 0 /\ j < n}

\* C10: an accepted frame of length L is forwarded as ceil(L / 8192) binary
\* broadcasts, each of 1 .. 8192 bytes, at increasing offsets that tile
\* 0 .. L-1 in order, carrying the bytes of the received frame.
C10_ChunkedForwarding ==
    ReadAccepted =>
        LET L == ev.msg.len
            b == Binaries
        IN /\ Len(b) = (L + 8191) \div 8192
           /\ \A k \in 1 .. Len(b) :
                /\ b[k].len >= 1 /\ b[k].len <= 8192
                /\ b[k].off = (IF k = 1 THEN 0 ELSE b[k - 1].off + b[k - 1].len)
                /\ \A j \in Probes(b[k].off, b[k].len) :
                     ChunkByte(b[k], j) = MsgByte(ev.msg, b[k].off + j)
           /\ (Len(b) > 0 => b[Len(b)].off + b[Len(b)].len = L)
           /\ \A k \in 1 .. Len(out) :
                (out[k].kind = "binary") => (\A m \in k .. Len(out) : out[m].kind = "binary")

\* a frame of 8193 bytes went out as a chunk of 8192 bytes and a chunk of 1
C10_Witness ==
    /\ ReadAccepted /\ ev.msg.len = 8193
    /\ Len(Binaries) = 2
    /\ Binaries[1].len = 8192 /\ Binaries[2].len = 1 /\ Binaries[2].off = 8192

----------------------------------------------------------------------------
(* C11 *)

\* C11: every motion event broadcast carries in its camera field the identity
\* of the slot it arrived on, whatever camera the producer put in it, and a
\* text message that is not a motion event is never forwarded: the step that
\* read it broadcasts nothing.
C11_MotionRetaggedOnlyMotionForwarded ==
    (Serviced /\ ev.msg.kind = "text") =>
        /\ \A k \in DOMAIN out :
              out[k].kind = "motion" /\ out[k].camera = ev.pre.cameraId
        /\ ev.msg.json # "motion" => out = <<>>

----------------------------------------------------------------------------
(* C12 *)

\* C12: a text message, or a binary frame of at most MAX_FRAME_SIZE bytes,
\* that is read is processed successfully, and that sets the slot's
\* lastActivity to the currentTime of the pass; a slot whose lastActivity was
\* set by a message is evicted only in a pass that began more than
\* CLIENT_TIMEOUT after the pass that set it; a step whose handler fails
\* leaves lastActivity of a slot it keeps as it was.
C12_SuccessStampsActivity ==
    /\ (Serviced /\ ev.read
          /\ (ev.msg.kind = "text"
              \/ (ev.msg.kind = "binary" /\ ev.msg.len <= MAX_FRAME_SIZE)))
        => ev.handled
    /\ (Serviced /\ ev.handled) =>
          /\ ~ev.evicted
          /\ ~camClients[ev.slot].null
          /\ camClients[ev.slot].lastActivity = currentTime
          /\ stamped[ev.slot] = [at |-> uptime, by |-> "message"]
    /\ (Serviced /\ ev.evicted /\ ev.preStamp.by = "message") =>
          uptime - ev.preStamp.at > CLIENT_TIMEOUT
    /\ (Serviced /\ ~ev.handled /\ ~ev.evicted) =>
          /\ ~camClients[ev.slot].null
          /\ camClients[ev.slot].lastActivity = ev.pre.lastActivity

\* a slot that processed a message exactly CLIENT_TIMEOUT before this pass has
\* nothing to read now and stays
C12_Witness ==
    /\ Serviced /\ ~ev.handled /\ ~ev.evicted
    /\ ev.preStamp.by = "message"
    /\ uptime - ev.preStamp.at = CLIENT_TIMEOUT
    /\ camClients[ev.slot] = ev.pre

----------------------------------------------------------------------------
(* C13 *)

\* the last step found a message pending and skipped it for lack of memory
SkippedLowMemory ==
    Serviced /\ ev.avail /\ ev.heap < MAX_FRAME_SIZE + HEAP_MARGIN

----------------------------------------------------------------------------
(* C14 *)

----------------------------------------------------------------------------
(* C15 *)

\* C15: the step in which the forced reset fires empties every slot, whatever
\* slots were occupied and whatever identities they held: afterwards all
\* MAX_CLIENTS slots are empty and activeClients is 0.
C15_ForcedResetEmptiesAll ==
    (ev.op = "begin" /\ ev.fired) =>
        /\ \A i \in Slots : camClients[i].null
        /\ activeClients = U32(0)
        /\ lowMemCount = 0

\* the forced reset fired with both slots occupied and left none
C15_Witness ==
    /\ ev.op = "begin" /\ ev.fired
    /\ ev.preCount = U32(MAX_CLIENTS)
    /\ Occupied = {}
    /\ activeClients = U32(0)

----------------------------------------------------------------------------
(* C16 *)

\* C16: a binary frame of at most MAX_FRAME_SIZE bytes that is too short to
\* hold byte 12, or whose byte 12 is neither 1 nor 2, is forwarded in full
\* (chunks that tile its length and carry its bytes), leaves the slot's
\* identity as it was, and the step broadcasts no status event.
C16_UntaggedFrameForwarded ==
    (ReadAccepted /\ (ev.msg.len <= TAG_OFFSET \/ ev.msg.tag \notin {1, 2})) =>
        LET L == ev.msg.len IN
        /\ ev.handled
        /\ Len(Statuses) = 0
        /\ out = Binaries
        /\ ~camClients[ev.slot].null
        /\ camClients[ev.slot].cameraId = ev.pre.cameraId
        /\ (L = 0) <=> (out = <<>>)
        /\ \A k \in 1 .. Len(out) :
             /\ out[k].off = (IF k = 1 THEN 0 ELSE out[k - 1].off + out[k - 1].len)
             /\ out[k].len >= 1
             /\ (k = Len(out)) => (out[k].off + out[k].len = L)
             /\ \A j \in Probes(out[k].off, out[k].len) :
                  ChunkByte(out[k], j) = MsgByte(ev.msg, out[k].off + j)

\* a slot with identity 1 received 13 bytes whose byte 12 is 3: they went out
\* as one chunk and the slot is still camera 1
C16_Witness ==
    /\ ReadAccepted /\ ev.msg.len = 13 /\ ev.msg.tag = 3
    /\ ev.pre.cameraId = 1
    /\ Len(out) = 1 /\ out[1].kind = "binary" /\ out[1].len = 13
    /\ ChunkByte(out[1], TAG_OFFSET) = 3
    /\ camClients[ev.slot].cameraId = 1

----------------------------------------------------------------------------
(* C17 *)

\* a broadcast that forwards a producer's message: a chunk or a motion event
Forwarded(e) == e.item.kind \in {"binary", "motion"}

\* C17: with producers that number their messages, the frames and motion
\* events forwarded for a slot appear among the broadcasts in the order of
\* their numbers (the chunks of one frame by increasing offset), and what a
\* step forwards is the message that step read, the latest of its slot.
C17_PerSlotOrder ==
    /\ \A a, b \in DOMAIN log :
          (a < b /\ log[a].slot = log[b].slot
           /\ Forwarded(log[a]) /\ Forwarded(log[b])) =>
              \/ log[a].item.seed < log[b].item.seed
              \/ /\ log[a].item.seed = log[b].item.seed
                 /\ log[a].item.kind = "binary" /\ log[b].item.kind = "binary"
                 /\ log[a].item.off < log[b].item.off
    /\ Serviced =>
          \A k \in DOMAIN out :
              out[k].kind \in {"binary", "motion"} =>
                  (ev.read /\ out[k].seed = ev.msg.seed
                   /\ out[k].seed = wire[ev.slot])

\* slot 0 forwarded its frame 1, slot 1 forwarded a message, then slot 0
\* forwarded its motion event 2
C17_Witness ==
    \E a, b, c \in DOMAIN log :
        /\ a < b /\ b < c
        /\ log[a].slot = 0 /\ log[a].item.kind = "binary" /\ log[a].item.seed = 1
        /\ log[b].slot = 1 /\ Forwarded(log[b])
        /\ log[c].slot = 0 /\ log[c].item.kind = "motion" /\ log[c].item.seed = 2

----------------------------------------------------------------------------
(* C18 *)

\* a and b are chunks of one frame, b the one that follows a
NextChunk(a, b) ==
    /\ a.item.kind = "binary" /\ b.item.kind = "binary"
    /\ a.slot = b.slot /\ a.frame = b.frame
    /\ a.item.seed = b.item.seed /\ a.item.b12 = b.item.b12
    /\ b.item.off = a.item.off + a.item.len

\* C18: the frame buffer holds one frame of at most SIZE bytes, and among the
\* broadcasts the chunks of a frame are contiguous: a chunk that does not
\* start its frame comes right after the chunk before it, a chunk that does
\* not end its frame is followed at once by the next one, and so no chunk of
\* another frame and no text event lies between the first and the last.
C18_FrameChunksContiguous ==
    /\ frameBuffer.length <= SIZE
    /\ \A k \in DOMAIN log :
          log[k].item.kind = "binary" =>
              /\ log[k].item.off + log[k].item.len <= log[k].frame
              /\ log[k].item.off > 0 =>
                    \/ k = 1 /\ Len(log) = MaxLog
                    \/ k > 1 /\ NextChunk(log[k - 1], log[k])
              /\ log[k].item.off + log[k].item.len < log[k].frame =>
                    (k < Len(log) /\ NextChunk(log[k], log[k + 1]))

\* the two chunks of a frame of slot 0 went out between its status events
\* and the frame of slot 1
C18_Witness ==
    \E k \in DOMAIN log :
        /\ k > 1 /\ k + 2 <= Len(log)
        /\ log[k - 1].item.kind = "status" /\ log[k - 1].slot = 0
        /\ log[k].slot = 0 /\ log[k].item.off = 0 /\ log[k].frame = 8193
        /\ NextChunk(log[k], log[k + 1])
        /\ log[k + 2].slot = 1 /\ log[k + 2].item.kind = "binary"

----------------------------------------------------------------------------
(* C19 *)

\* the lowest index of an empty slot
LowestEmpty ==
    CHOOSE i \in Slots : camClients[i].null /\ \A j \in Slots : j < i => ~camClients[j].null

\* C19: a successful admission fills the lowest-indexed empty slot with a
\* client of identity unset whose lastActivity is the time of its
\* construction (the pass's currentTime or up to the accept lag later), adds
\* one to activeClients, leaves every other slot and the frame buffer as they
\* were, and broadcasts nothing.
C19_AdmissionEffect ==
    [][(pc = "accept" /\ ev'.admitted) =>
          /\ \E i \in Slots : camClients[i].null
          /\ ~camClients'[LowestEmpty].null
          /\ camClients'[LowestEmpty].cameraId = UNSET_ID
          /\ Le32(Sub32(camClients'[LowestEmpty].lastActivity, currentTime), 1)
          /\ \A j \in Slots \ {LowestEmpty} : camClients'[j] = camClients[j]
          /\ activeClients' = Add32(activeClients, 1)
          /\ Cardinality(Occupied') = Cardinality(Occupied) + 1
          /\ out' = <<>>
          /\ frameBuffer' = frameBuffer]_vars

\* a connection was admitted into slot 0, freed by a timeout, while slot 1
\* holds camera 2
C19_Witness ==
    /\ ev.op = "accept" /\ ev.admitted
    /\ ~camClients[0].null /\ camClients[0].cameraId = UNSET_ID
    /\ stamped[0].by = "admit" /\ stamped[0].at >= uptime
    /\ ~camClients[1].null /\ camClients[1].cameraId = 2
    /\ activeClients = U32(2)
    /\ out = <<>>

----------------------------------------------------------------------------
(* C20 *)

\* C20: frameBuffer.length is never over SIZE (16384); after a frame is
\* accepted frameBuffer.length is that frame's length and the buffer holds its
\* bytes; a frame rejected as oversized leaves the length and the contents of
\* the buffer as they were.
C20_FrameBufferLength ==
    /\ [](frameBuffer.length <= 16384)
    /\ [](ReadAccepted =>
            /\ frameBuffer.length = ev.msg.len
            /\ \A k \in {0, TAG_OFFSET, ev.msg.len - 1} :
                  (k >= 0 /\ k < ev.msg.len) =>
                      BufByte(frameBuffer, k) = MsgByte(ev.msg, k))
    /\ [][(ReadOversized)' => frameBuffer' = frameBuffer]_vars

\* a frame of exactly 16384 bytes was accepted into a buffer that held a
\* shorter one
C20_Witness ==
    /\ ReadAccepted /\ ev.msg.len = 16384
    /\ frameBuffer.length = 16384
    /\ frameBuffer.b12 = ev.msg.tag
    /\ Len(Binaries) = 2

----------------------------------------------------------------------------
(* C21 *)

\* C21: in every state activeClients is the number of occupied slots, through
\* admissions, timeout evictions and forced resets, so it never passes below
\* 0 (to 2^32 - 1) and is under MAX_CLIENTS exactly when a slot is empty; an
\* admission attempted with enough memory succeeds whenever a slot is empty.
C21_CounterMatchesTable ==
    /\ [](activeClients = U32(Cardinality(Occupied)))
    /\ [](Lt32(activeClients, MAX_CLIENTS) <=> (Occupied # Slots))
    /\ [][(pc = "accept" /\ activeClients = U32(0)) =>
            activeClients' \in {U32(0), U32(1)}]_vars
    /\ [][(pc = "accept" /\ ev'.conn /\ ev'.heap >= MAX_FRAME_SIZE + HEAP_MARGIN)
            => (ev'.admitted /\ Occupied # Slots
                /\ Cardinality(Occupied') = Cardinality(Occupied) + 1)]_vars

\* after a forced reset emptied the table, and with one slot occupied again,
\* a second connection was admitted
C21_Witness ==
    /\ ev.op = "accept" /\ ev.admitted
    /\ \E k \in DOMAIN hist : hist[k].fired
    /\ ev.preCount = U32(1)
    /\ activeClients = U32(2)
    /\ Occupied = Slots

----------------------------------------------------------------------------
(* C22 *)

\* C22: a slot is evicted by the timeout only when more than CLIENT_TIMEOUT
\* has really elapsed, at the start of the pass, since its admission or its
\* last successfully processed message, also in the pass that admitted it.
C22_NoEarlyEviction ==
    (Serviced /\ ev.evicted /\ ev.preStamp.by \in {"admit", "message"}) =>
        uptime - ev.preStamp.at > CLIENT_TIMEOUT

====
